---- MODULE Spec2Model ----
(***************************************************************************)
(* Distributed block-vector arithmetic of mpi_vector_add2.c: comm_sz MPI   *)
(* processes run main() and meet in its collectives (MPI_Bcast,            *)
(* MPI_Allreduce inside Check_for_error, MPI_Scatter, MPI_Gather,          *)
(* MPI_Reduce).                                                            *)
(*                                                                         *)
(* A process takes one step from the point where it is blocked (a          *)
(* collective that has not completed for it, or scanf) to the next such    *)
(* point; the code between two such points touches only the process's own  *)
(* memory and runs inside the step.  The values of the vectors are the     *)
(* results of rand() % randmax and their integer multiples, which a double *)
(* holds exactly, so they are integers here.                               *)
(***************************************************************************)
EXTENDS Integers, Sequences, FiniteSets, TLC

\* ------------------------------------------------------------- bounds
\* largest communicator size tried
MaxP == 4
\* largest vector order typed at the first prompt (20 is typed as well)
MaxN == 10
\* largest random bound typed at the second prompt
MaxRandMax == 2
\* largest scalar typed at the third prompt
MaxScalar == 2
\* largest value of time(NULL) handed to srand
MaxTime == 0
\* how many calls of malloc may return NULL in one run
MaxFail == 1

VARIABLES
    comm_sz,    \* size of MPI_COMM_WORLD
    clock,      \* what time(NULL) returns during the run
    proc,       \* proc[r]: the memory and position of the process of rank r
    coll,       \* coll[k][r]: what rank r handed to its k-th collective call
    stdout,     \* lines printed with printf, in order
    stderr,     \* lines printed with fprintf(stderr, ...), in order
    nofail      \* how many calls of malloc have returned NULL

vars == <<comm_sz, clock, proc, coll, stdout, stderr, nofail>>

Ranks == 0 .. (comm_sz - 1)

\* the values scanf can deliver at the three prompts
NInputs == (-1 .. MaxN) \cup {20}
RInputs == -1 .. MaxRandMax
KInputs == -1 .. MaxScalar

\* ------------------------------------------------------------- C arithmetic
Abs(i) == IF i < 0 THEN -i ELSE i

\* int / int: the quotient truncated toward zero (b # 0)
C_div(a, b) ==
    LET q == Abs(a) \div Abs(b)
    IN  IF (a < 0) = (b < 0) THEN q ELSE -q

\* int % int: the remainder that goes with C_div (b # 0)
C_rem(a, b) == a - b * C_div(a, b)

RECURSIVE SeqSum(_)
SeqSum(s) == IF s = <<>> THEN 0 ELSE Head(s) + SeqSum(Tail(s))

SeqMin(s) == CHOOSE m \in {s[i] : i \in 1 .. Len(s)} :
                 \A i \in 1 .. Len(s) : m <= s[i]

\* ------------------------------------------------------------- libc
\* rand() and srand() are those of the GNU C library the program is linked
\* with: random_r() over the 31-word additive feedback table (TYPE_3,
\* r[i] = r[i-31] + r[i-3] modulo 2^32, the value returned being r[i] >> 1),
\* seeded by srandom_r().  RAND_MAX = 2147483647.  A 32-bit word is kept as
\* the pair h = word >> 1, l = word & 1, so that no sum leaves 31 bits.
RAND_MAX == 2147483647

random_r_word(i) == [h |-> i \div 2, l |-> i % 2]

\* *fptr += *rptr in unsigned 32-bit arithmetic
random_r_add(a, b) ==
    LET l == a.l + b.l
        c == l \div 2
        t == a.h - (RAND_MAX - b.h)
    IN  [h |-> IF t + c - 1 >= 0 THEN t + c - 1 ELSE t + RAND_MAX + c,
         l |-> l % 2]

\* srandom_r: word = 16807 * word % 2147483647 by Schrage's method
srandom_r_step(word) ==
    LET hi == word \div 127773
        lo == word % 127773
        w  == 16807 * lo - 2836 * hi
    IN  IF w < 0 THEN w + RAND_MAX ELSE w

\* srandom_r: r[0] = seed, r[1 .. k] by srandom_r_step
RECURSIVE srandom_r_table(_, _)
srandom_r_table(word, k) ==
    IF k = 0 THEN <<word>>
    ELSE <<word>> \o srandom_r_table(srandom_r_step(word), k - 1)

\* the word the j-th of the next 31 calls of random_r leaves in the table r
\* (r[1] is *rptr and r[29] is *fptr at the first of them)
RECURSIVE random_r_word_after(_, _)
random_r_word_after(r, j) ==
    IF j <= 3 THEN random_r_add(r[j], r[28 + j])
    ELSE random_r_add(r[j], random_r_word_after(r, j - 3))

\* the table after 31 calls of random_r
random_r_table_after(r) ==
    SubSeq([j \in 1 .. 31 |-> random_r_word_after(r, j)], 1, 31)

\* the words 31 * k calls of random_r leave, in order
RECURSIVE random_r_words(_, _)
random_r_words(r, k) ==
    IF k = 0 THEN <<>>
    ELSE LET r2 == random_r_table_after(r)
         IN  r2 \o random_r_words(r2, k - 1)

\* random_r called skip + k times on the table r: the values the last k
\* calls return (*result = *fptr >> 1)
random_r(r, skip, k) ==
    LET words == random_r_words(r, ((skip + k) \div 31) + 1)
    IN  SubSeq([i \in 1 .. k |-> words[skip + i].h], 1, k)

\* how many calls of rand() a run makes at most: two vectors of the largest
\* order
rand_calls ==
    2 * (CHOOSE m \in NInputs : \A n \in NInputs : n <= m)

\* the seeds the generator is started from: srandom_r takes 1 for seed 0,
\* and a program that never calls srand runs as after srand(1)
rand_seed(seed) == IF seed = 0 THEN 1 ELSE seed

\* the values rand() returns after srand(seed), in order: srandom_r fills
\* the table, sets fptr = &r[3], rptr = &r[0] and discards 310 values
rand_sequence ==
    [seed \in {rand_seed(t) : t \in 0 .. MaxTime} \cup {1} |->
        LET t == srandom_r_table(seed, 30)
            r == SubSeq([i \in 1 .. 31 |->
                    random_r_word(IF i <= 28 THEN t[i + 3] ELSE t[i - 28])],
                        1, 31)
        IN  random_r(r, 310, rand_calls)]

\* srand(seed): the generator's state after seeding, kept as the seed and
\* the number of calls of rand() made since
srand(seed) == [seed |-> rand_seed(seed), calls |-> 0]

\* one call of rand(): the value returned in the state next
rand(next) == rand_sequence[next.seed][next.calls + 1]

\* the states of the generator before each of the next k calls of rand()
rand_states(next, k) ==
    [i \in 1 .. k |-> [next EXCEPT !.calls = @ + i - 1]]

\* ------------------------------------------------------------- MPI
\* a slot of a collective call nobody has filled yet
NoCall == [op |-> "none", val |-> <<>>]

\* rank w hands val to its k-th collective call, of kind op
Contribute(c, k, w, op, val) ==
    IF k <= Len(c)
    THEN [c EXCEPT ![k][w] = [op |-> op, val |-> val]]
    ELSE Append(c, [r \in Ranks |-> IF r = w THEN [op |-> op, val |-> val]
                                             ELSE NoCall])

\* rank r has entered the k-th collective call, and it is of kind op
Arrived(c, k, r, op) == k <= Len(c) /\ c[k][r].op = op

AllArrived(c, k, op) == \A r \in Ranks : Arrived(c, k, r, op)

\* MPI_Bcast(buf, 1, MPI_INT, 0, comm): what the root sent
MPI_Bcast_value(c, k) == c[k][0].val[1]

\* MPI_Allreduce(&local_ok, &ok, 1, MPI_INT, MPI_MIN, comm)
MPI_Allreduce_MIN(c, k) == SeqMin([i \in 1 .. comm_sz |-> c[k][i - 1].val[1]])

\* MPI_Scatter(a, count, ..., local_a, count, ..., 0, comm): the count
\* elements rank r receives from the root's send buffer
MPI_Scatter_block(sendbuf, count, r) ==
    [j \in 1 .. count |-> sendbuf[r * count + j]]

\* MPI_Gather(local_b, count, ..., b, count, ..., 0, comm): the receive
\* buffer of the root, rank r's block at offset r * count
MPI_Gather_buffer(c, k, count) ==
    [i \in 1 .. comm_sz * count |->
        c[k][(i - 1) \div count].val[((i - 1) % count) + 1]]

\* MPI_Reduce(&local_dot, result, 1, MPI_DOUBLE, MPI_SUM, 0, comm)
MPI_Reduce_SUM(c, k) == SeqSum([i \in 1 .. comm_sz |-> c[k][i - 1].val[1]])

\* ------------------------------------------------------------- a process
\* The memory of a process as main() starts.  `set` names the variables
\* that hold a value; a variable outside it is uninitialised and its field
\* here is a placeholder.  `heap` names the blocks malloc returned that are
\* not freed yet; a pointer whose block is not in heap is NULL.  `stages`
\* lists the stages of the pipeline the process has entered, in order.
InitProc(r) ==
    [ my_rank   |-> r,
      pc        |-> "main",
      status    |-> "running",
      exit_code |-> 0,
      ret       |-> 0,
      fname     |-> "",
      message   |-> "",
      arr       |-> "",
      title     |-> "",
      n         |-> 0,
      local_n   |-> 0,
      randmax   |-> 0,
      scalar    |-> 0,
      result    |-> 0,
      ok        |-> 0,
      set       |-> {},
      local_x   |-> <<>>,
      local_y   |-> <<>>,
      local_z   |-> <<>>,
      a         |-> <<>>,
      b         |-> <<>>,
      heap      |-> {},
      next      |-> srand(1),
      cnt       |-> 0,
      stages    |-> <<"Init">> ]

\* what one step of rank w reads and writes
World(w) ==
    [p |-> proc[w], coll |-> coll, out |-> stdout, err |-> stderr,
     nofail |-> nofail]

Commit(w, W) ==
    /\ proc' = [proc EXCEPT ![w] = W.p]
    /\ coll' = W.coll
    /\ stdout' = W.out
    /\ stderr' = W.err
    /\ nofail' = W.nofail
    /\ UNCHANGED <<comm_sz, clock>>

\* the process enters its next collective call
MPI_call(W, w, op, val) ==
    [W EXCEPT !.coll = Contribute(@, W.p.cnt + 1, w, op, val),
              !.p.cnt = @ + 1]

Block(W, at) == [W EXCEPT !.p.pc = at]

\* the process enters stage s of the pipeline, unless it is in it
Stage(W, s) ==
    [W EXCEPT !.p.stages = IF @[Len(@)] = s THEN @ ELSE Append(@, s)]

Line(w, text, nums, elems) ==
    [rank |-> w, text |-> text, nums |-> nums, elems |-> elems]

printf(W, w, text, nums, elems) ==
    [W EXCEPT !.out = Append(@, Line(w, text, nums, elems))]

\* malloc(count * sizeof(double)): a block of count doubles whose content
\* is not set, or NULL
malloc(W, name, count, success) ==
    IF success
    THEN [W EXCEPT !.p[name] = [i \in 1 .. count |-> 0],
                   !.p.heap = @ \cup {name}]
    ELSE [W EXCEPT !.p[name] = <<>>, !.p.heap = @ \ {name},
                   !.nofail = @ + 1]

\* free(ptr): nothing when ptr is NULL
free(W, name) == [W EXCEPT !.p[name] = <<>>, !.p.heap = @ \ {name}]

\* the process ends with exit(code) or a return from main
exit(W, code) ==
    [W EXCEPT !.p.pc = "exited", !.p.status = "exited", !.p.exit_code = code]

\* the process is ended by a signal
killed(W, signal) ==
    [W EXCEPT !.p.pc = "killed", !.p.status = signal]

\* ------------------------------------------------------------- Check_for_error
\* the call up to MPI_Allreduce, where the process waits for the group
Check_for_error_call(W, w, local_ok, fname, message, at) ==
    Block(MPI_call([W EXCEPT !.p.fname = fname, !.p.message = message],
                   w, "Allreduce", <<local_ok>>), at)

\* (mutant) the reduction is MPI_MAX
Check_for_error_ok_MAX(c, k) ==
    -SeqMin([i \in 1 .. comm_sz |-> -c[k][i - 1].val[1]])

\* ok, as MPI_Allreduce leaves it in the k-th collective call
Check_for_error_ok(c, k) == MPI_Allreduce_MIN(c, k)

\* (mutant) the message is printed before ok is tested
Check_for_error_return_fprintf(W, w) ==
    [W EXCEPT !.p.ok = Check_for_error_ok(W.coll, W.p.cnt),
              !.p.set = @ \cup {"ok"},
              !.err = Append(@, [rank |-> w, fname |-> W.p.fname,
                                 message |-> W.p.message])]

\* MPI_Allreduce returns in rank w with ok set
Check_for_error_return(W, w) ==
    [W EXCEPT !.p.ok = Check_for_error_ok(W.coll, W.p.cnt),
              !.p.set = @ \cup {"ok"}]

\* (mutant) MPI_Finalize and exit(-1) sit inside if (my_rank == 0)
Check_for_error_exits_rank0(my_rank, ok) == ok = 0 /\ my_rank = 0

\* if (ok == 0): this process ends here
Check_for_error_exits(my_rank, ok) == ok = 0

\* (mutant) the message is printed without the test of my_rank
Check_for_error_reports_all(my_rank) == TRUE

\* if (my_rank == 0): this process prints the message
Check_for_error_reports(my_rank) == my_rank = 0

\* the branch ok == 0: fprintf at rank 0, MPI_Finalize, exit(-1)
Check_for_error_abort(W, w) ==
    LET W1 == IF Check_for_error_reports(w)
              THEN [W EXCEPT !.err =
                       Append(@, [rank |-> w, fname |-> W.p.fname,
                                  message |-> W.p.message])]
              ELSE W
    IN  exit(Stage(W1, "Teardown"), -1)

\* ------------------------------------------------------------- the functions
\* What the environment decides during one step: mem[i], whether the i-th
\* malloc of the step returns a block; ub, what an operation with undefined
\* behaviour does ("trap": the process is killed; "go": it carries on).
\* A step that calls malloc m times and may (u) do something undefined draws
\* from Outcomes(m, u).
Outcomes(m, u) ==
    { nd \in [mem : [1 .. 3 -> BOOLEAN], ub : {"trap", "go"}] :
        /\ \A i \in 1 .. 3 : i > m => nd.mem[i]
        /\ Cardinality({i \in 1 .. 3 : ~nd.mem[i]}) <= MaxFail - nofail
        /\ ~u => nd.ub = "go" }

Assign(W, var, value) == [W EXCEPT !.p[var] = value, !.p.set = @ \cup {var}]

\* Read_n up to its first wait: scanf at rank 0, MPI_Bcast elsewhere
Read_n_call(W, w) ==
    IF w = 0
    THEN Block(printf(W, w, "What's the order of the vectors?", <<>>, <<>>),
               "Read_n_scanf")
    ELSE Block(MPI_call(W, w, "Bcast", <<>>), "Read_n_Bcast")

\* (mutant) the test of divisibility is missing
Read_n_local_ok_sign(n) == IF n < 0 THEN 0 ELSE 1

\* if (*n_p < 0 || *n_p % comm_sz != 0) local_ok = 0;
Read_n_local_ok(n) == IF n < 0 \/ C_rem(n, comm_sz) # 0 THEN 0 ELSE 1

\* Read_n from the return of MPI_Bcast to the wait in Check_for_error
Read_n_vote(W, w) ==
    Check_for_error_call(Stage(W, "Partition"), w, Read_n_local_ok(W.p.n),
        "Read_n",
        "n should be >= 100,000 and evenly divisible by comm_sz",
        "Read_n_Check")

\* *local_n_p = *n_p/comm_sz;
Read_n_local_n(n) == C_div(n, comm_sz)

Read_RandMax_call(W, w) ==
    IF w = 0
    THEN Block(printf(W, w, "What's the max number for random?", <<>>, <<>>),
               "Read_RandMax_scanf")
    ELSE Block(MPI_call(W, w, "Bcast", <<>>), "Read_RandMax_Bcast")

\* if (*randmax < 0) local_ok = 0;
Read_RandMax_local_ok(randmax) == IF randmax < 0 THEN 0 ELSE 1

Read_RandMax_vote(W, w) ==
    Check_for_error_call(W, w, Read_RandMax_local_ok(W.p.randmax),
        "Read_RandMax", "randmax should be >= 100,000", "Read_RandMax_Check")

\* Allocate_vectors up to the wait in Check_for_error
Allocate_vectors_call(W, w, nd) ==
    LET W1 == malloc(W, "local_x", W.p.local_n, nd.mem[1])
        W2 == malloc(W1, "local_y", W.p.local_n, nd.mem[2])
        W3 == malloc(W2, "local_z", W.p.local_n, nd.mem[3])
        local_ok == IF {"local_x", "local_y", "local_z"} \subseteq W3.p.heap
                    THEN 1 ELSE 0
    IN  Check_for_error_call(W3, w, local_ok,
            "Allocate_vectors", "Can't allocate local vector(s)",
            "Allocate_vectors_Check")

\* Generate_vector(local_a, local_n, n, vec_name, ...) up to the wait in
\* Check_for_error; arr names the block local_a points to
Generate_vector_call(W, w, arr, vec_name, nd) ==
    LET W0 == [W EXCEPT !.p.arr = arr, !.p.title = vec_name]
        W1 == IF w = 0
              THEN malloc(W0, "a", W.p.n, nd.mem[1])
              ELSE W0
        local_ok == IF w = 0 /\ "a" \notin W1.p.heap THEN 0 ELSE 1
    IN  Check_for_error_call(W1, w, local_ok, "Generate_vector",
            "Can't allocate temporary vector", "Generate_vector_Check")

\* PrintTopDown_vector(local_b, local_n, n, title, ...) up to the wait in
\* Check_for_error; arr names the block local_b points to
PrintTopDown_vector_call(W, w, arr, title, nd) ==
    LET W0 == [W EXCEPT !.p.arr = arr, !.p.title = title]
        W1 == IF w = 0
              THEN malloc(W0, "b", W.p.n, nd.mem[1])
              ELSE W0
        local_ok == IF w = 0 /\ "b" \notin W1.p.heap THEN 0 ELSE 1
    IN  Check_for_error_call(W1, w, local_ok, "PrintTopDown_vector",
            "Can't allocate temporary vector", "PrintTopDown_vector_Check")

Read_Scalar_call(W, w) ==
    IF w = 0
    THEN Block(printf(W, w, "What's the number for the scalar?", <<>>, <<>>),
               "Read_Scalar_scanf")
    ELSE Block(MPI_call(W, w, "Bcast", <<>>), "Read_Scalar_Bcast")

\* (mutant) the scalar is added to the element
Parallel_vector_scalar_add(scalar, local_arr, local_n) ==
    [i \in 1 .. Len(local_arr) |->
        IF i <= local_n THEN local_arr[i] + scalar ELSE local_arr[i]]

\* (mutant) the loop stops one element early
Parallel_vector_scalar_short(scalar, local_arr, local_n) ==
    [i \in 1 .. Len(local_arr) |->
        IF i < local_n THEN local_arr[i] * scalar ELSE local_arr[i]]

\* local_arr[local_i] = local_arr[local_i] * scalar, for local_i < local_n
Parallel_vector_scalar(scalar, local_arr, local_n) ==
    [i \in 1 .. Len(local_arr) |->
        IF i <= local_n THEN local_arr[i] * scalar ELSE local_arr[i]]

\* (mutant) the loop starts at i = 1
Parallel_vector_dot_local_from1(local_x, local_y, local_n) ==
    SeqSum([i \in 1 .. (local_n - 1) |-> local_x[i + 1] * local_y[i + 1]])

\* local_dot += local_x[i]*local_y[i], for i < local_n
Parallel_vector_dot_local(local_x, local_y, local_n) ==
    SeqSum([i \in 1 .. local_n |-> local_x[i] * local_y[i]])

\* Parallel_vector_dot up to the return of MPI_Reduce, which the root awaits
Parallel_vector_dot_call(W, w) ==
    LET local_dot == Parallel_vector_dot_local(W.p.local_x, W.p.local_y,
                                               W.p.local_n)
        W1 == MPI_call(W, w, "Reduce", <<local_dot>>)
    IN  Block(W1, IF w = 0 THEN "Parallel_vector_dot_Reduce" ELSE "returned")

\* if (my_rank == 0) printf("\nResult of dot product: %lf\n", result);
Display_dot_result(W, my_rank, result) ==
    IF my_rank = 0
    THEN printf(W, my_rank, "Result of dot product", <<result>>, <<>>)
    ELSE W

\* ------------------------------------------------------------- main
\* (mutant) free(local_z) is missing
main_finish_leak(W, w) ==
    LET W1 == Display_dot_result(Stage(W, "Report"), w, W.p.result)
        W2 == IF w = 0 THEN printf(W1, w, "Took s to run", <<>>, <<>>) ELSE W1
        W3 == Stage(W2, "Teardown")
    IN  exit(free(free(W3, "local_x"), "local_y"), 0)

\* (mutant) main goes from Parallel_vector_dot straight to the calls of free
main_finish_no_report(W, w) ==
    LET W3 == Stage(W, "Teardown")
    IN  exit(free(free(free(W3, "local_x"), "local_y"), "local_z"), 0)

\* main from Display_dot_result to return 0
main_finish(W, w) ==
    LET W1 == Display_dot_result(Stage(W, "Report"), w, W.p.result)
        W2 == IF w = 0 THEN printf(W1, w, "Took s to run", <<>>, <<>>) ELSE W1
        W3 == Stage(W2, "Teardown")
    IN  exit(free(free(free(W3, "local_x"), "local_y"), "local_z"), 0)

\* main resumes after the call whose line is W.p.ret and runs to the next
\* wait of the process
main_return(W, w, nd) ==
    LET at(line, s) == Stage([W EXCEPT !.p.ret = line], s)
        scaled(arr) == [W EXCEPT !.p[arr] =
            Parallel_vector_scalar(W.p.scalar, W.p[arr], W.p.local_n)]
    IN  CASE W.p.ret = 65 -> Read_RandMax_call(at(66, "ReadParams"), w)
          [] W.p.ret = 66 -> Allocate_vectors_call(at(69, "Allocate"), w, nd)
          [] W.p.ret = 69 ->
                Generate_vector_call(at(71, "GenerateX"), w, "local_x", "x", nd)
          [] W.p.ret = 71 ->
                PrintTopDown_vector_call(at(72, "GenerateX"), w,
                    "local_x", "Vector x", nd)
          [] W.p.ret = 72 ->
                Generate_vector_call(at(73, "GenerateY"), w, "local_y", "y", nd)
          [] W.p.ret = 73 ->
                PrintTopDown_vector_call(at(74, "GenerateY"), w,
                    "local_y", "Vector y", nd)
          [] W.p.ret = 74 -> Read_Scalar_call(at(78, "ScalarRead"), w)
          [] W.p.ret = 78 ->
                PrintTopDown_vector_call(
                    Stage([scaled("local_x") EXCEPT !.p.ret = 80], "ScaleX"),
                    w, "local_x", "Vector x by scalar", nd)
          [] W.p.ret = 80 ->
                PrintTopDown_vector_call(
                    Stage([scaled("local_y") EXCEPT !.p.ret = 82], "ScaleY"),
                    w, "local_y", "Vector y by scalar", nd)
          [] W.p.ret = 82 ->
                LET W1 == Parallel_vector_dot_call(at(86, "DotProduct"), w)
                IN  IF W1.p.pc = "returned" THEN main_finish(W1, w) ELSE W1
          [] OTHER -> main_finish(W, w)

\* ------------------------------------------------------------- the steps
\* how many calls of malloc rank w makes between its return to main from the
\* call at line ret and its next wait
MallocsAfter(ret, w) ==
    IF ret = 66 THEN 3
    ELSE IF ret \in {69, 71, 72, 73, 78, 80} /\ w = 0 THEN 1
    ELSE 0

\* the process as MPI_Allreduce returns in Check_for_error
AfterAllreduce(w) == Check_for_error_return(World(w), w)

\* The call rank w is in can return.  The MPI library is not part of the
\* program, and MPI leaves open when a collective call returns at a rank: no
\* earlier than the rank's own part in it is done, no later than the moment
\* every rank has called it.  Ready is the earliest moment: MPI_Bcast and
\* MPI_Scatter can return at a rank other than the root once the root has
\* called, MPI_Allreduce once every rank has called, MPI_Gather and
\* MPI_Reduce at the root once every rank has called; the root of MPI_Bcast
\* and MPI_Scatter and a rank other than the root in MPI_Gather and
\* MPI_Reduce need wait for nobody.  A library that holds a rank longer (a
\* tree of messages, a barrier in every collective) gives the behaviours in
\* which that rank takes its step later, so its runs are runs of this
\* model as well; what differs is only which of the ranks that have not
\* stepped the library is holding.  scanf and printf wait for no other
\* process.
Ready(w) ==
    LET p == proc[w]
    IN  CASE p.pc \in {"Read_n_Bcast", "Read_RandMax_Bcast",
                       "Read_Scalar_Bcast"} ->
                Arrived(coll, p.cnt, 0, "Bcast")
          [] p.pc \in {"Read_n_Check", "Read_RandMax_Check",
                       "Allocate_vectors_Check", "Generate_vector_Check",
                       "PrintTopDown_vector_Check"} ->
                AllArrived(coll, p.cnt, "Allreduce")
          [] p.pc = "Generate_vector_Scatter" ->
                Arrived(coll, p.cnt, 0, "Scatter")
          [] p.pc = "PrintTopDown_vector_Gather" ->
                AllArrived(coll, p.cnt, "Gather")
          [] p.pc = "Parallel_vector_dot_Reduce" ->
                AllArrived(coll, p.cnt, "Reduce")
          [] p.pc \in {"exited", "killed"} -> FALSE
          [] OTHER -> TRUE

\* rank w is blocked at `at` and can go on
At(w, at) == proc[w].pc = at /\ Ready(w)

\* main up to the first wait: srand(time(NULL)), MPI_Init, Read_n
main(w) ==
    /\ At(w, "main")
    /\ Commit(w, Read_n_call(
           Stage([World(w) EXCEPT !.p.next = srand(clock), !.p.ret = 65],
                 "ReadParams"), w))

\* rank 0: scanf("%d", n_p) returns; MPI_Bcast as root; the vote
Read_n_scanf(w) ==
    /\ At(w, "Read_n_scanf")
    /\ \E v \in NInputs :
          Commit(w, Read_n_vote(
              MPI_call(Assign(World(w), "n", v), w, "Bcast", <<v>>), w))

\* what MPI_Bcast leaves in *n_p at a rank other than the root
Read_n_receive(W, w) == Assign(W, "n", MPI_Bcast_value(W.coll, W.p.cnt))

\* other ranks: MPI_Bcast returns with n; the vote
Read_n_Bcast(w) ==
    /\ At(w, "Read_n_Bcast")
    /\ Commit(w, Read_n_vote(Read_n_receive(World(w), w), w))

\* Check_for_error returns or ends the process; local_n; Read_RandMax begins
Read_n_Check(w) ==
    /\ At(w, "Read_n_Check")
    /\ \E nd \in Outcomes(0, FALSE) :
          Commit(w, IF Check_for_error_exits(w, AfterAllreduce(w).p.ok)
                    THEN Check_for_error_abort(AfterAllreduce(w), w)
                    ELSE main_return(
                             Assign(AfterAllreduce(w), "local_n",
                                    Read_n_local_n(proc[w].n)), w, nd))

Read_RandMax_scanf(w) ==
    /\ At(w, "Read_RandMax_scanf")
    /\ \E v \in RInputs :
          Commit(w, Read_RandMax_vote(
              MPI_call(Assign(World(w), "randmax", v), w, "Bcast", <<v>>), w))

Read_RandMax_receive(W, w) ==
    Assign(W, "randmax", MPI_Bcast_value(W.coll, W.p.cnt))

Read_RandMax_Bcast(w) ==
    /\ At(w, "Read_RandMax_Bcast")
    /\ Commit(w, Read_RandMax_vote(Read_RandMax_receive(World(w), w), w))

\* Check_for_error returns or ends the process; Allocate_vectors begins
Read_RandMax_Check(w) ==
    /\ At(w, "Read_RandMax_Check")
    /\ \E nd \in Outcomes(3, FALSE) :
          Commit(w, IF Check_for_error_exits(w, AfterAllreduce(w).p.ok)
                    THEN Check_for_error_abort(AfterAllreduce(w), w)
                    ELSE main_return(AfterAllreduce(w), w, nd))

\* Check_for_error returns or ends the process; Generate_vector(x) begins
Allocate_vectors_Check(w) ==
    /\ At(w, "Allocate_vectors_Check")
    /\ \E nd \in Outcomes(MallocsAfter(69, w), FALSE) :
          Commit(w, IF Check_for_error_exits(w, AfterAllreduce(w).p.ok)
                    THEN Check_for_error_abort(AfterAllreduce(w), w)
                    ELSE main_return(AfterAllreduce(w), w, nd))

\* rand() % randmax for the value rand() returned (randmax # 0)
Generate_vector_element(value, randmax) == C_rem(value, randmax)

\* the loop divides by zero: randmax = 0 and the loop body runs.  The
\* division is undefined in C; the program is built for x86-64, where the
\* idiv instruction raises the divide error and the process is killed by
\* SIGFPE at the first element.
Generate_vector_divides_by_zero(n, randmax) == n > 0 /\ randmax = 0

\* for (i = 0; i < n; i++) a[i] = rand() % randmax;
Generate_vector_fill(next, n, randmax) ==
    LET states == rand_states(next, n)
    IN  [i \in 1 .. n |-> Generate_vector_element(rand(states[i]), randmax)]

\* the generator's state after the n calls of the loop
Generate_vector_next(next, n) ==
    IF n <= 0 THEN next ELSE [next EXCEPT !.calls = @ + n]

\* (mutant) every rank is sent the first block
Generate_vector_receive_first(sendbuf, local_n, w) ==
    MPI_Scatter_block(sendbuf, local_n, 0)

\* what MPI_Scatter leaves in local_a of rank w
Generate_vector_receive(sendbuf, local_n, w) ==
    MPI_Scatter_block(sendbuf, local_n, w)

\* rank 0 after Check_for_error: the loop, MPI_Scatter as root, free(a),
\* and on into PrintTopDown_vector
Generate_vector_root(W, w, nd) ==
    IF Generate_vector_divides_by_zero(W.p.n, W.p.randmax)
    THEN killed(W, "SIGFPE")
    ELSE LET a  == Generate_vector_fill(W.p.next, W.p.n, W.p.randmax)
             W1 == [W EXCEPT !.p.a = a,
                       !.p.next = Generate_vector_next(@, W.p.n)]
             W2 == MPI_call(W1, w, "Scatter", a)
             W3 == [W2 EXCEPT !.p[W.p.arr] =
                       Generate_vector_receive(a, W.p.local_n, w)]
         IN  main_return(free(W3, "a"), w, nd)

\* Check_for_error returns or ends the process; rank 0 generates and
\* scatters, the other ranks enter MPI_Scatter
Generate_vector_Check(w) ==
    /\ At(w, "Generate_vector_Check")
    /\ \E nd \in Outcomes(MallocsAfter(proc[w].ret, w), FALSE) :
          Commit(w, IF Check_for_error_exits(w, AfterAllreduce(w).p.ok)
                    THEN Check_for_error_abort(AfterAllreduce(w), w)
                    ELSE IF w = 0
                    THEN Generate_vector_root(AfterAllreduce(w), w, nd)
                    ELSE Block(MPI_call(AfterAllreduce(w), w, "Scatter", <<>>),
                               "Generate_vector_Scatter"))

\* other ranks: MPI_Scatter returns with the block; PrintTopDown_vector begins
Generate_vector_Scatter(w) ==
    /\ At(w, "Generate_vector_Scatter")
    /\ \E nd \in Outcomes(0, FALSE) :
          Commit(w, main_return(
              [World(w) EXCEPT !.p[proc[w].arr] =
                  Generate_vector_receive(coll[proc[w].cnt][0].val,
                                          proc[w].local_n, w)], w, nd))

\* Check_for_error returns or ends the process; every rank enters
\* MPI_Gather with its block, and all but the root go on in main
PrintTopDown_vector_Check(w) ==
    /\ At(w, "PrintTopDown_vector_Check")
    /\ \E nd \in Outcomes(0, FALSE) :
          Commit(w,
              IF Check_for_error_exits(w, AfterAllreduce(w).p.ok)
              THEN Check_for_error_abort(AfterAllreduce(w), w)
              ELSE LET W1 == MPI_call(AfterAllreduce(w), w, "Gather",
                                      proc[w][proc[w].arr])
                   IN  IF w = 0
                       THEN Block(W1, "PrintTopDown_vector_Gather")
                       ELSE main_return(W1, w, nd))

\* (mutant) the blocks are put into b in the reverse order of the ranks
PrintTopDown_vector_receive_reversed(c, k, local_n) ==
    [i \in 1 .. comm_sz * local_n |->
        c[k][comm_sz - 1 - ((i - 1) \div local_n)].val[((i - 1) % local_n) + 1]]

\* what MPI_Gather leaves in b at the root
PrintTopDown_vector_receive(c, k, local_n) == MPI_Gather_buffer(c, k, local_n)

\* rank 0: MPI_Gather returns with b filled
PrintTopDown_vector_Gather(w) ==
    /\ At(w, "PrintTopDown_vector_Gather")
    /\ Commit(w, Block(
           [World(w) EXCEPT !.p.b =
               PrintTopDown_vector_receive(coll, proc[w].cnt, proc[w].local_n)],
           "PrintTopDown_vector_printf"))

\* the read of b[i] by printf: inb says whether i is an index of b.  At an
\* index of b the value printed is the element; outside b printf prints what
\* the memory at b + i happens to hold (an element of another vector, heap
\* bookkeeping, anything), which the state of the program does not
\* determine: the read has no val, and any value printed agrees with it.
PrintTopDown_vector_read(b, i) ==
    IF 0 <= i /\ i < Len(b)
    THEN [pos |-> i, val |-> b[i + 1], inb |-> TRUE]
    ELSE [pos |-> i, inb |-> FALSE]

\* the indices the first window reads: i = 0 .. 8, then 9
PrintTopDown_vector_first == [j \in 1 .. 10 |-> j - 1]

\* (mutant) the second window starts one position early
PrintTopDown_vector_last_early(n) == [j \in 1 .. 10 |-> n - 11 + j - 1]

\* the indices the second window reads: i = n-10 .. n-2, then n-1
PrintTopDown_vector_last(n) == [j \in 1 .. 10 |-> n - 10 + j - 1]

\* rank 0: the title and the two windows are printed, free(b), and on in
\* main; a read outside b is undefined
PrintTopDown_vector_printf(w) ==
    /\ At(w, "PrintTopDown_vector_printf")
    /\ \E nd \in Outcomes(MallocsAfter(proc[w].ret, w), proc[w].n < 10) :
          LET p  == proc[w]
              r1 == [j \in 1 .. 10 |->
                       PrintTopDown_vector_read(p.b, PrintTopDown_vector_first[j])]
              r2 == [j \in 1 .. 10 |->
                       PrintTopDown_vector_read(p.b, PrintTopDown_vector_last(p.n)[j])]
              outside == \E j \in 1 .. 10 : ~r1[j].inb \/ ~r2[j].inb
              W1 == printf(World(w), w, p.title, <<>>, <<>>)
              W2 == printf(W1, w, "0 - 10", <<>>, r1)
              W3 == printf(W2, w, "%d - %d", <<p.n - 10, p.n>>, r2)
          IN  Commit(w, IF outside /\ nd.ub = "trap"
                        THEN killed(W1, "SIGSEGV")
                        ELSE main_return(free(W3, "b"), w, nd))

\* rank 0: scanf("%d", scalar) returns; MPI_Bcast as root; on in main
Read_Scalar_scanf(w) ==
    /\ At(w, "Read_Scalar_scanf")
    /\ \E v \in KInputs, nd \in Outcomes(MallocsAfter(78, w), FALSE) :
          Commit(w, main_return(
              MPI_call(Assign(World(w), "scalar", v), w, "Bcast", <<v>>),
              w, nd))

\* (mutant) the scalar is not broadcast
Read_Scalar_receive_none(W, w) == W

\* what MPI_Bcast leaves in *scalar at a rank other than the root
Read_Scalar_receive(W, w) ==
    Assign(W, "scalar", MPI_Bcast_value(W.coll, W.p.cnt))

\* other ranks: MPI_Bcast returns with the scalar; on in main
Read_Scalar_Bcast(w) ==
    /\ At(w, "Read_Scalar_Bcast")
    /\ \E nd \in Outcomes(0, FALSE) :
          Commit(w, main_return(Read_Scalar_receive(World(w), w), w, nd))

\* rank 0: MPI_Reduce returns with the sum in result; main ends
Parallel_vector_dot_Reduce(w) ==
    /\ At(w, "Parallel_vector_dot_Reduce")
    /\ \E nd \in Outcomes(0, FALSE) :
          Commit(w, main_return(
              Assign(World(w), "result", MPI_Reduce_SUM(coll, proc[w].cnt)),
              w, nd))

\* ------------------------------------------------------------- the system
Init ==
    /\ comm_sz \in 1 .. MaxP
    /\ clock \in 0 .. MaxTime
    /\ proc = [r \in 0 .. (comm_sz - 1) |-> InitProc(r)]
    /\ coll = <<>>
    /\ stdout = <<>>
    /\ stderr = <<>>
    /\ nofail = 0

Next ==
    \/ \E w \in Ranks : main(w)
    \/ \E w \in Ranks : Read_n_scanf(w)
    \/ \E w \in Ranks : Read_n_Bcast(w)
    \/ \E w \in Ranks : Read_n_Check(w)
    \/ \E w \in Ranks : Read_RandMax_scanf(w)
    \/ \E w \in Ranks : Read_RandMax_Bcast(w)
    \/ \E w \in Ranks : Read_RandMax_Check(w)
    \/ \E w \in Ranks : Allocate_vectors_Check(w)
    \/ \E w \in Ranks : Generate_vector_Check(w)
    \/ \E w \in Ranks : Generate_vector_Scatter(w)
    \/ \E w \in Ranks : PrintTopDown_vector_Check(w)
    \/ \E w \in Ranks : PrintTopDown_vector_Gather(w)
    \/ \E w \in Ranks : PrintTopDown_vector_printf(w)
    \/ \E w \in Ranks : Read_Scalar_scanf(w)
    \/ \E w \in Ranks : Read_Scalar_Bcast(w)
    \/ \E w \in Ranks : Parallel_vector_dot_Reduce(w)

Spec == Init /\ [][Next]_vars

\* ------------------------------------------------------------- vector_add2.c
\* The serial program: one process, no collectives.  It takes one step for
\* each call main makes; its memory is proc[0].

\* the memory of the process as main() starts; srand is never called, so
\* rand() starts from the state srand(1) leaves
vector_add2_InitProc ==
    [ my_rank   |-> 0,
      pc        |-> "main",
      status    |-> "running",
      exit_code |-> 0,
      n         |-> 0,
      randmax   |-> 0,
      set       |-> {},
      x         |-> <<>>,
      y         |-> <<>>,
      z         |-> <<>>,
      heap      |-> {},
      next      |-> srand(1) ]

\* fprintf(stderr, message); exit(-1);
vector_add2_fail(W, message) ==
    exit([W EXCEPT !.err = Append(@, [rank |-> 0, fname |-> "",
                                      message |-> message])], -1)

\* main up to scanf in Read_n
vector_add2_main ==
    /\ At(0, "main")
    /\ Commit(0, Block(printf(World(0), 0, "What's the order of the vectors?",
                              <<>>, <<>>), "Read_n_scanf"))

\* if (*n_p <= 0)
vector_add2_Read_n_rejects(n) == n <= 0

\* Read_n from the return of scanf; main goes on to scanf in Read_RandMax
vector_add2_Read_n ==
    /\ At(0, "Read_n_scanf")
    /\ \E v \in NInputs :
          LET W == Assign(World(0), "n", v)
          IN  Commit(0, IF vector_add2_Read_n_rejects(v)
                        THEN vector_add2_fail(W, "Order should be positive")
                        ELSE Block(printf(W, 0,
                                       "What's the max number for random?",
                                       <<>>, <<>>), "Read_RandMax_scanf"))

\* the address main passes to Read_RandMax, &randmax: not a null pointer
vector_add2_randmax_p == 1

\* if (randmax <= 0), where randmax is the pointer, not the value read
vector_add2_Read_RandMax_rejects(randmax_p, value) == randmax_p <= 0

\* Read_RandMax from the return of scanf
vector_add2_Read_RandMax ==
    /\ At(0, "Read_RandMax_scanf")
    /\ \E v \in RInputs :
          LET W == Assign(World(0), "randmax", v)
          IN  Commit(0, IF vector_add2_Read_RandMax_rejects(
                               vector_add2_randmax_p, v)
                        THEN vector_add2_fail(W, "Max number should be positive")
                        ELSE Block(W, "Allocate_vectors"))

\* Allocate_vectors(&x, &y, &z, n)
vector_add2_Allocate_vectors ==
    /\ At(0, "Allocate_vectors")
    /\ \E nd \in Outcomes(3, FALSE) :
          LET W1 == malloc(World(0), "x", proc[0].n, nd.mem[1])
              W2 == malloc(W1, "y", proc[0].n, nd.mem[2])
              W3 == malloc(W2, "z", proc[0].n, nd.mem[3])
          IN  Commit(0, IF {"x", "y", "z"} \subseteq W3.p.heap
                        THEN Block(W3, "Generate_vector_x")
                        ELSE vector_add2_fail(W3, "Can't allocate vectors"))

\* Generate_vector(x, n, "x", randmax) and Generate_vector(y, n, "y",
\* randmax): the loop a[i] = rand() % randmax and the line printed
vector_add2_Generate_vector ==
    \E vec_name \in {"x", "y"} :
        /\ At(0, IF vec_name = "x" THEN "Generate_vector_x"
                                   ELSE "Generate_vector_y")
        /\ \E nd \in Outcomes(0, FALSE) :
              LET p  == proc[0]
                  W1 == [World(0) EXCEPT
                            !.p[vec_name] =
                                Generate_vector_fill(p.next, p.n, p.randmax),
                            !.p.next = Generate_vector_next(@, p.n)]
                  W2 == printf(W1, 0, "Vector generated", <<>>, <<>>)
              IN  Commit(0, IF Generate_vector_divides_by_zero(p.n, p.randmax)
                            THEN killed(World(0), "SIGFPE")
                            ELSE Block(W2, IF vec_name = "x"
                                           THEN "Generate_vector_y"
                                           ELSE "PrintTopDown_vector_x"))

\* PrintTopDown_vector(x, n, "Vector x") and PrintTopDown_vector(y, n,
\* "Vector y"): the title and the two windows; a read outside b is undefined
vector_add2_PrintTopDown_vector ==
    \E vec_name \in {"x", "y"} :
        /\ At(0, IF vec_name = "x" THEN "PrintTopDown_vector_x"
                                   ELSE "PrintTopDown_vector_y")
        /\ \E nd \in Outcomes(0, proc[0].n < 10) :
              LET p  == proc[0]
                  b  == p[vec_name]
                  r1 == [j \in 1 .. 10 |->
                           PrintTopDown_vector_read(b, PrintTopDown_vector_first[j])]
                  r2 == [j \in 1 .. 10 |->
                           PrintTopDown_vector_read(b, PrintTopDown_vector_last(p.n)[j])]
                  outside == \E j \in 1 .. 10 : ~r1[j].inb \/ ~r2[j].inb
                  W1 == printf(World(0), 0,
                               IF vec_name = "x" THEN "Vector x" ELSE "Vector y",
                               <<>>, <<>>)
                  W2 == printf(W1, 0, "0 - 10", <<>>, r1)
                  W3 == printf(W2, 0, "%d - %d", <<p.n - 10, p.n>>, r2)
              IN  Commit(0, IF outside /\ nd.ub = "trap"
                            THEN killed(W1, "SIGSEGV")
                            ELSE Block(W3, IF vec_name = "x"
                                           THEN "PrintTopDown_vector_y"
                                           ELSE "Vector_sum"))

\* z[i] = x[i] + y[i], for i < n
vector_add2_Vector_sum(x, y, n) == [i \in 1 .. n |-> x[i] + y[i]]

\* main from Vector_sum to return 0
vector_add2_main_finish ==
    /\ At(0, "Vector_sum")
    /\ LET p  == proc[0]
           W1 == [World(0) EXCEPT !.p.z = vector_add2_Vector_sum(p.x, p.y, p.n)]
           W2 == free(free(free(W1, "x"), "y"), "z")
       IN  Commit(0, exit(printf(W2, 0, "Took s to run", <<>>, <<>>), 0))

vector_add2_Init ==
    /\ comm_sz = 1
    /\ clock \in 0 .. MaxTime
    /\ proc = [r \in {0} |-> vector_add2_InitProc]
    /\ coll = <<>>
    /\ stdout = <<>>
    /\ stderr = <<>>
    /\ nofail = 0

vector_add2_Next ==
    \/ vector_add2_main
    \/ vector_add2_Read_n
    \/ vector_add2_Read_RandMax
    \/ vector_add2_Allocate_vectors
    \/ vector_add2_Generate_vector
    \/ vector_add2_PrintTopDown_vector
    \/ vector_add2_main_finish

vector_add2_Spec == vector_add2_Init /\ [][vector_add2_Next]_vars

\* ------------------------------------------------------------- vocabulary
\* the k-th collective call is a Check_for_error call
IsGate(k) == \E r \in Ranks : coll[k][r].op = "Allreduce"

\* the votes cast so far in gate k
Voted(k) == {r \in Ranks : coll[k][r].op = "Allreduce"}

Vote(k, r) == coll[k][r].val[1]

\* some worker voted unhealthy in gate k
Unhealthy(k) == \E r \in Voted(k) : Vote(k, r) = 0

\* the logical AND of the votes of gate k
AndOfVotes(k) == IF \A r \in Voted(k) : Vote(k, r) = 1 THEN 1 ELSE 0

\* rank r waits inside Check_for_error
InGate(r) ==
    proc[r].pc \in {"Read_n_Check", "Read_RandMax_Check",
                    "Allocate_vectors_Check", "Generate_vector_Check",
                    "PrintTopDown_vector_Check"}

\* rank r ended in exit(-1)
Aborted(r) == proc[r].pc = "exited" /\ proc[r].exit_code = -1

\* rank r returned from main
Completed(r) == proc[r].pc = "exited" /\ proc[r].exit_code = 0

\* every process has ended
RunOver == \A r \in Ranks : proc[r].pc \in {"exited", "killed"}

\* the last Check_for_error call rank r has got past MPI_Allreduce in;
\* 0 when there is none
LastGatePassed(r) ==
    LET past == {k \in 1 .. proc[r].cnt :
                    /\ coll[k][r].op = "Allreduce"
                    /\ (k = proc[r].cnt => ~InGate(r))}
    IN  IF past = {} THEN 0
        ELSE CHOOSE k \in past : \A j \in past : j <= k

\* ------------------------------------------------------------- C1
\* C1: when some worker votes unhealthy in a Check_for_error call, no worker
\* returns from that call: a worker that has entered it is still waiting in
\* it or has ended there with exit(-1), and no worker has entered any later
\* collective (so none has allocated, scattered, gathered, scaled, reduced
\* or printed after it).
C1_UnhealthyGateEndsEveryWorker ==
    \A k \in 1 .. Len(coll) :
        (IsGate(k) /\ Unhealthy(k)) =>
            \A r \in Ranks :
                /\ proc[r].cnt <= k
                /\ proc[r].cnt = k => (InGate(r) \/ Aborted(r))

\* a group of several workers has ended in a gate where one worker voted
\* unhealthy and another healthy
C1_Witness ==
    \E k \in 1 .. Len(coll) :
        /\ IsGate(k)
        /\ \E r, q \in Voted(k) : Vote(k, r) = 0 /\ Vote(k, q) = 1
        /\ \A r \in Ranks : Aborted(r) /\ proc[r].cnt = k

\* ------------------------------------------------------------- C2
\* C2: a worker gets past MPI_Allreduce in a Check_for_error call only when
\* every worker of the group has entered that call with its vote, and the ok
\* it then holds is the logical AND (the minimum) of all the votes.
C2_GateIsBarrierWithAndOfVotes ==
    \A r \in Ranks :
        LET k == LastGatePassed(r)
        IN  k > 0 =>
               /\ Voted(k) = Ranks
               /\ "ok" \in proc[r].set
               /\ proc[r].ok = AndOfVotes(k)

\* a worker that voted healthy is past a gate in which another worker voted
\* unhealthy, holding ok = 0
C2_Witness ==
    \E r \in Ranks :
        LET k == LastGatePassed(r)
        IN  /\ k > 0
            /\ Vote(k, r) = 1
            /\ \E q \in Ranks : Vote(k, q) = 0
            /\ proc[r].ok = 0

\* ------------------------------------------------------------- C3
\* C3: stderr never holds more than one line and only rank 0 writes it; it
\* holds a line exactly when rank 0 has ended in exit(-1); and when a run is
\* over in which some worker ended in exit(-1) it holds exactly one line.
C3_OneDiagnosticLineByRankZero ==
    /\ Len(stderr) <= 1
    /\ \A i \in 1 .. Len(stderr) : stderr[i].rank = 0
    /\ (Len(stderr) = 1) = Aborted(0)
    /\ (RunOver /\ \E r \in Ranks : Aborted(r)) => Len(stderr) = 1
    /\ (\A r \in Ranks : Completed(r)) => stderr = <<>>

\* a run of several workers is over, all of them ended in exit(-1), and
\* stderr holds the one line of rank 0
C3_Witness ==
    /\ comm_sz >= 2
    /\ \A r \in Ranks : Aborted(r)
    /\ Len(stderr) = 1
    /\ stderr[1].rank = 0

\* ------------------------------------------------------------- C4
\* rank r is past the Check_for_error call of Read_n
PastReadN(r) ==
    /\ proc[r].cnt >= 2
    /\ proc[r].pc # "Read_n_Check"

\* rank r ended in the Check_for_error call of Read_n
AbortedInReadN(r) == Aborted(r) /\ proc[r].fname = "Read_n"

\* C4: with n the order read at rank 0, a worker past the gate of Read_n has
\* ended there with exit(-1) exactly when n < 0 or n % comm_sz # 0, and
\* otherwise it goes on with local_n = n / comm_sz and local_n * comm_sz = n.
C4_ReadNGate ==
    \A r \in Ranks :
        PastReadN(r) =>
            LET n == proc[0].n
                bad == n < 0 \/ n % comm_sz # 0
            IN  /\ AbortedInReadN(r) = bad
                /\ ~bad => /\ "local_n" \in proc[r].set
                           /\ proc[r].local_n * comm_sz = n
                           /\ proc[r].n = n

\* every worker of a group of two has ended in the gate of Read_n on an
\* order that is positive and odd
C4_Witness ==
    /\ comm_sz = 2
    /\ proc[0].n > 0
    /\ proc[0].n % 2 = 1
    /\ \A r \in Ranks : AbortedInReadN(r)

\* ------------------------------------------------------------- C5
\* C5: as long as some worker has not ended, some worker can take a step; no
\* run comes to rest with a worker waiting in a collective (the runs are
\* finite, so this is what eventual termination under fair scheduling
\* amounts to).
C5_NoWorkerWaitsForever ==
    (\E r \in Ranks : proc[r].status = "running") => \E r \in Ranks : Ready(r)

\* ------------------------------------------------------------- C6
\* the collective calls before the k-th in which the root scattered
ScattersBefore(k) == {j \in 1 .. (k - 1) : coll[j][0].op = "Scatter"}

\* the vector the root handed to the last MPI_Scatter before the k-th call
LastScattered(k) ==
    coll[CHOOSE j \in ScattersBefore(k) :
            \A i \in ScattersBefore(k) : i <= j][0].val

\* rank 0 holds in b what MPI_Gather returned for the print of an unscaled
\* vector
GatheredUnscaled ==
    /\ proc[0].pc = "PrintTopDown_vector_printf"
    /\ proc[0].title \in {"Vector x", "Vector y"}

\* C6: the vector rank 0 gathers for the print that follows a generation is,
\* element for element, the vector it generated and scattered.
C6_ScatterGatherRoundTrip ==
    GatheredUnscaled =>
        /\ Len(proc[0].b) = proc[0].n
        /\ proc[0].b = LastScattered(proc[0].cnt)

\* the vector y has come back to rank 0 from several workers whose blocks
\* are not all alike
C6_Witness ==
    /\ GatheredUnscaled
    /\ proc[0].title = "Vector y"
    /\ comm_sz >= 2
    /\ proc[0].local_n >= 2
    /\ proc[0].b = LastScattered(proc[0].cnt)
    /\ \E i \in 1 .. proc[0].local_n : proc[0].b[i] # proc[0].b[proc[0].local_n + i]

\* ------------------------------------------------------------- C7
\* the blocks ranks 0 .. r handed to the k-th collective call, in rank order
RECURSIVE BlocksUpTo(_, _)
BlocksUpTo(k, r) ==
    IF r < 0 THEN <<>> ELSE BlocksUpTo(k, r - 1) \o coll[k][r].val

\* the global vector whose blocks the workers handed to the k-th call
GlobalVector(k) == BlocksUpTo(k, comm_sz - 1)

\* the dot product of two whole vectors
Dot(x, y) == SeqSum([i \in 1 .. Len(x) |-> x[i] * y[i]])

GathersBefore(k) == {j \in 1 .. (k - 1) : coll[j][0].op = "Gather"}

\* the last MPI_Gather before the k-th collective call
LastGather(k) ==
    CHOOSE j \in GathersBefore(k) : \A i \in GathersBefore(k) : i <= j

\* C7: the result MPI_Reduce delivers at rank 0 is the sum of the workers'
\* partial sums and equals the sum of x[i]*y[i] over the whole index range
\* of the global vectors x and y the workers hold in blocks, whatever the
\* number of workers the range is split over.
C7_DotProductOverPartitions ==
    "result" \in proc[0].set =>
        LET k == proc[0].cnt
            y == GlobalVector(LastGather(k))
            x == GlobalVector(LastGather(LastGather(k)))
        IN  /\ coll[k][0].op = "Reduce"
            /\ Len(x) = proc[0].n
            /\ Len(y) = proc[0].n
            /\ proc[0].result = Dot(x, y)

\* four workers have each sent a partial sum, three of them one that is not
\* 0, and rank 0 holds the result
C7_Witness ==
    /\ comm_sz = 4
    /\ "result" \in proc[0].set
    /\ Cardinality({r \in Ranks : coll[proc[0].cnt][r].val[1] > 0}) >= 3
    /\ proc[0].result = Dot(GlobalVector(LastGather(LastGather(proc[0].cnt))),
                            GlobalVector(LastGather(proc[0].cnt)))

\* ------------------------------------------------------------- C8
\* the lines of stdout that report the dot product
DotLines == {i \in 1 .. Len(stdout) : stdout[i].text = "Result of dot product"}

\* the collective calls in which the root scattered, over the whole run
Scatters == ScattersBefore(Len(coll) + 1)

\* the vectors x and y as rank 0 generated them
GeneratedX == coll[CHOOSE j \in Scatters : \A i \in Scatters : j <= i][0].val
GeneratedY == coll[CHOOSE j \in Scatters : \A i \in Scatters : i <= j][0].val

\* C8: the dot product is never reported more than once nor by a rank other
\* than 0, and no rank other than 0 is given the result; when every worker
\* has returned from main, stdout holds exactly one report, and its value is
\* scalar * scalar * sum(x_i * y_i) over the vectors as generated.
C8_ReportedDotProduct ==
    /\ Cardinality(DotLines) <= 1
    /\ \A i \in DotLines : stdout[i].rank = 0
    /\ \A r \in Ranks : r # 0 => "result" \notin proc[r].set
    /\ (\A r \in Ranks : Completed(r)) =>
          /\ Cardinality(DotLines) = 1
          /\ Cardinality(Scatters) = 2
          /\ \A i \in DotLines :
                stdout[i].nums[1] =
                    proc[0].scalar * proc[0].scalar
                        * Dot(GeneratedX, GeneratedY)

\* a run of several workers with scalar 2 has completed and reported a dot
\* product that is not 0
C8_Witness ==
    /\ comm_sz >= 2
    /\ \A r \in Ranks : Completed(r)
    /\ proc[0].scalar = 2
    /\ \E i \in DotLines : stdout[i].nums[1] = 4 * Dot(GeneratedX, GeneratedY)
                            /\ stdout[i].nums[1] > 0

\* ------------------------------------------------------------- C9
\* the places where a worker uses a broadcast parameter: it votes in the
\* gate of Read_n (its 2nd collective call) on n, computes local_n from n,
\* votes in the gate of Read_RandMax (its 4th) on randmax, and scales once
\* main has got past line 78
UsesN(r) == proc[r].cnt >= 2 \/ "local_n" \in proc[r].set
UsesRandmax(r) == proc[r].cnt >= 4
UsesScalar(r) == proc[r].ret \in {80, 82, 86}

\* C9: a worker that uses n, randmax or the scalar holds the value rank 0
\* read, and the workers cast the same vote in the gates of Read_n and
\* Read_RandMax.
C9_BroadcastParametersAgree ==
    /\ \A r \in Ranks :
          /\ UsesN(r) =>
                {"n"} \subseteq (proc[r].set \cap proc[0].set)
                /\ proc[r].n = proc[0].n
          /\ UsesRandmax(r) =>
                {"randmax"} \subseteq (proc[r].set \cap proc[0].set)
                /\ proc[r].randmax = proc[0].randmax
          /\ UsesScalar(r) =>
                {"scalar"} \subseteq (proc[r].set \cap proc[0].set)
                /\ proc[r].scalar = proc[0].scalar
    /\ \A k \in {2, 4} :
          k <= Len(coll) => \A r, q \in Voted(k) : Vote(k, r) = Vote(k, q)

\* a worker other than rank 0 has scaled with the scalar 2 that rank 0 read
C9_Witness ==
    \E r \in Ranks :
        /\ r # 0
        /\ UsesScalar(r)
        /\ proc[r].scalar = 2
        /\ proc[0].scalar = 2
        /\ proc[r].n = proc[0].n
        /\ proc[r].n > 0

\* ------------------------------------------------------------- C10
\* C10: once randmax has passed the gate of Read_RandMax, the generation at
\* rank 0 completes and every element rank 0 generates is in [0, randmax).
C10_GeneratedElementsInRange ==
    /\ proc[0].status # "SIGFPE"
    /\ \A k \in Scatters :
          \A i \in 1 .. Len(coll[k][0].val) :
              0 <= coll[k][0].val[i] /\ coll[k][0].val[i] < proc[0].randmax

\* ------------------------------------------------------------- C11
\* the reads of the gathered vector that printf has made so far
SummaryReads ==
    {rd \in UNION {{stdout[i].elems[j] : j \in 1 .. Len(stdout[i].elems)} :
                      i \in 1 .. Len(stdout)} : TRUE}

\* C11: when the order read at rank 0 is 0, either the gate of Read_n ends
\* the run, or the summary completes at rank 0 and reads no position outside
\* the index range of the gathered vector.
C11_ZeroOrderRejectedOrSummaryInRange ==
    ("n" \in proc[0].set /\ proc[0].n = 0 /\ PastReadN(0)) =>
        \/ AbortedInReadN(0)
        \/ /\ proc[0].status # "SIGSEGV"
           /\ \A rd \in SummaryReads : rd.inb

\* ------------------------------------------------------------- C12
\* some Check_for_error call of the run has failed
SomeGateFailed == \E k \in 1 .. Len(coll) : IsGate(k) /\ Unhealthy(k)

\* rank r has ended, by exit, by a return from main or by a signal
Ended(r) == proc[r].pc \in {"exited", "killed"}

\* C12: a worker that has ended has ended with exit code -1 when some
\* Check_for_error call failed and with exit code 0 when none did, so two
\* workers never end with different exit codes.
C12_SameExitCodeEverywhere ==
    /\ \A r \in Ranks :
          Ended(r) => IF SomeGateFailed THEN Aborted(r) ELSE Completed(r)
    /\ \A r, q \in Ranks :
          (Ended(r) /\ Ended(q)) =>
              /\ proc[r].status = proc[q].status
              /\ proc[r].exit_code = proc[q].exit_code

\* ------------------------------------------------------------- C13
\* every worker has voted in gate k and every vote is healthy
HealthyGate(k) ==
    /\ IsGate(k)
    /\ Voted(k) = Ranks
    /\ \A r \in Ranks : Vote(k, r) = 1

\* the memory of a process without the local variable ok of Check_for_error
OutsideGate(p) == [p EXCEPT !.ok = 0, !.set = @ \ {"ok"}]

\* C13: when every worker has voted healthy in a Check_for_error call, the
\* call returns in a worker that waits in it without ending the worker, and
\* it leaves the worker's blocks, its parameters, the collectives, stdout
\* and stderr as they were at the call; a worker ends in a Check_for_error
\* call only when some vote in it was unhealthy.
C13_HealthyGateChangesNothing ==
    /\ \A r \in Ranks :
          (InGate(r) /\ HealthyGate(proc[r].cnt)) =>
              LET W == AfterAllreduce(r)
              IN  /\ ~Check_for_error_exits(r, W.p.ok)
                  /\ OutsideGate(W.p) = OutsideGate(proc[r])
                  /\ W.coll = coll
                  /\ W.out = stdout
                  /\ W.err = stderr
                  /\ W.nofail = nofail
    /\ \A r \in Ranks :
          (~Aborted(r) /\ LastGatePassed(r) > 0) =>
              HealthyGate(LastGatePassed(r))
    /\ \A r \in Ranks : Aborted(r) => Unhealthy(proc[r].cnt)

\* in a group of several workers one worker has returned from the gate of
\* PrintTopDown_vector, where all voted healthy, and another, which holds a
\* block that is not empty, still waits in it
C13_Witness ==
    \E r, q \in Ranks :
        /\ r # q
        /\ InGate(q)
        /\ proc[q].fname = "PrintTopDown_vector"
        /\ HealthyGate(proc[q].cnt)
        /\ Len(proc[q].local_x) >= 1
        /\ stdout # <<>>
        /\ proc[r].status = "running"
        /\ LastGatePassed(r) = proc[q].cnt

\* ------------------------------------------------------------- C14
\* rank r holds in local_x (local_y) the block MPI_Scatter gave it, not
\* scaled yet: main is between the return of Generate_vector and the call of
\* Parallel_vector_scalar for that vector
HoldsScatteredX(r) == proc[r].ret \in {72, 73, 74, 78}
HoldsScatteredY(r) == proc[r].ret \in {74, 78, 80}

\* block is the part of the global vector that belongs to rank r
IsBlockOf(block, global, r, local_n) ==
    /\ Len(block) = local_n
    /\ \A j \in 0 .. (local_n - 1) : block[j + 1] = global[r * local_n + j + 1]

\* the pairs (worker, position in its block) that hold global index i
Owners(i, local_n) ==
    {rj \in Ranks \X (0 .. (local_n - 1)) : rj[1] * local_n + rj[2] = i}

\* C14: element j of the block of worker i is global element i*local_n + j
\* of the vector rank 0 scattered, every global index belongs to exactly one
\* position of one block, and the vector rank 0 gathers has the block of
\* worker i at the positions i*local_n .. (i+1)*local_n - 1.
C14_BlocksPartitionGlobalVector ==
    /\ \A r \in Ranks :
          /\ HoldsScatteredX(r) =>
                IsBlockOf(proc[r].local_x, GeneratedX, r, proc[r].local_n)
          /\ HoldsScatteredY(r) =>
                IsBlockOf(proc[r].local_y, GeneratedY, r, proc[r].local_n)
    /\ \A k \in Scatters :
          /\ Len(coll[k][0].val) = comm_sz * proc[0].local_n
          /\ \A i \in 0 .. (Len(coll[k][0].val) - 1) :
                Cardinality(Owners(i, proc[0].local_n)) = 1
    /\ proc[0].pc = "PrintTopDown_vector_printf" =>
          /\ Len(proc[0].b) = proc[0].n
          /\ \A r \in Ranks :
                IsBlockOf(coll[proc[0].cnt][r].val, proc[0].b, r,
                          proc[0].local_n)

\* four workers hold blocks of two elements of the vector y, rank 0 has
\* gathered them, and the last worker's block, which differs from the first
\* worker's, sits at the global positions 6 and 7
C14_Witness ==
    /\ comm_sz = 4
    /\ proc[0].local_n = 2
    /\ proc[0].pc = "PrintTopDown_vector_printf"
    /\ proc[0].title = "Vector y"
    /\ HoldsScatteredY(3)
    /\ proc[3].local_y = <<proc[0].b[7], proc[0].b[8]>>
    /\ proc[3].local_y = <<GeneratedY[7], GeneratedY[8]>>
    /\ proc[3].local_y # proc[0].local_y

\* ------------------------------------------------------------- C15
\* the collectives main calls, in the order of its lines 65 .. 86
CollectiveOrder ==
    <<"Bcast", "Allreduce",                            \* Read_n
      "Bcast", "Allreduce",                            \* Read_RandMax
      "Allreduce",                                     \* Allocate_vectors
      "Allreduce", "Scatter", "Allreduce", "Gather",   \* x
      "Allreduce", "Scatter", "Allreduce", "Gather",   \* y
      "Bcast",                                         \* Read_Scalar
      "Allreduce", "Gather", "Allreduce", "Gather",    \* x, y by scalar
      "Reduce">>                                       \* Parallel_vector_dot

\* rank r waits in a collective that cannot return yet under any MPI library
\* (not even one that returns every call at the earliest moment)
Blocked(r) == proc[r].status = "running" /\ ~Ready(r)

\* every worker's k-th collective call is the k-th of the fixed order
SameOrder ==
    /\ Len(coll) <= Len(CollectiveOrder)
    /\ \A k \in 1 .. Len(coll) :
          \A r \in Ranks :
              /\ (k <= proc[r].cnt) = (coll[k][r].op # "none")
              /\ k <= proc[r].cnt => coll[k][r].op = CollectiveOrder[k]

\* the collective rank r is in
Current(r) == coll[proc[r].cnt][r].op

\* C15: the k-th collective call of every worker is the same collective, the
\* k-th of the fixed order of main, whether the worker is rank 0 or not, and
\* no two workers are blocked in different collectives.
C15_NoTwoBlockedInDifferentCollectives ==
    /\ SameOrder
    /\ \A r, q \in {w \in Ranks : Blocked(w)} : Current(r) = Current(q)

\* ------------------------------------------------------------- C16
\* the states of the pipeline in the order the claim gives them
PipelineOrder ==
    <<"Init", "ReadParams", "Partition", "Allocate", "GenerateX",
      "GenerateY", "ScalarRead", "ScaleX", "ScaleY", "DotProduct", "Report",
      "Teardown">>

\* the states of the pipeline in the order main enters them: Read_n reads n
\* and partitions it, and Read_RandMax reads the second parameter after that
CallOrder ==
    <<"Init", "ReadParams", "Partition", "ReadParams", "Allocate",
      "GenerateX", "GenerateY", "ScalarRead", "ScaleX", "ScaleY",
      "DotProduct", "Report", "Teardown">>

IsPrefix(s, t) == Len(s) <= Len(t) /\ \A i \in 1 .. Len(s) : s[i] = t[i]

\* the stages of worker r follow `order`: they are its beginning, all of it
\* when the worker has returned from main, and when the worker has ended in
\* a Check_for_error call they are the stages up to the one of that call
\* with Teardown next; a worker that is past a failed call has ended there
FollowsOrder(r, order) ==
    LET st == proc[r].stages
    IN  /\ IF Aborted(r)
           THEN /\ st[Len(st)] = "Teardown"
                /\ Len(st) <= Len(order) - 2
                /\ IsPrefix(SubSeq(st, 1, Len(st) - 1), order)
                /\ Unhealthy(proc[r].cnt)
           ELSE /\ IsPrefix(st, order)
                /\ (st[Len(st)] = "Teardown") = Completed(r)
                /\ Completed(r) => st = order
        /\ (~InGate(r) /\ proc[r].cnt > 0 /\ Unhealthy(proc[r].cnt)) =>
              Aborted(r)

\* C16 (as stated): every worker passes through Init, ReadParams, Partition,
\* Allocate, GenerateX, GenerateY, ScalarRead, ScaleX, ScaleY, DotProduct,
\* Report, Teardown in this order without revisiting or skipping a state,
\* and from a failed gate every worker goes straight to Teardown.
C16_PipelineOrderAsStated == \A r \in Ranks : FollowsOrder(r, PipelineOrder)

\* C16 (amended): every worker passes through Init, ReadParams (n),
\* Partition, ReadParams (randmax), Allocate, GenerateX, GenerateY,
\* ScalarRead, ScaleX, ScaleY, DotProduct, Report, Teardown in this order
\* without skipping or repeating any other state, and from a failed gate
\* every worker goes straight to Teardown.
C16_PipelineOrder == \A r \in Ranks : FollowsOrder(r, CallOrder)

\* both workers of a group of two have returned from main, each after all
\* the stages of CallOrder, on an order of at least 10
C16_Witness ==
    /\ comm_sz = 2
    /\ \A r \in Ranks : Completed(r) /\ proc[r].stages = CallOrder
    /\ proc[0].n >= 10

\* ------------------------------------------------------------- C17
\* the block of `global` that belongs to rank r, every element times k
ScaledBlock(global, r, local_n, k) ==
    [j \in 1 .. local_n |-> k * global[r * local_n + j]]

\* main of rank r is past Parallel_vector_scalar for x (for y) and has not
\* freed the blocks
HasScaledX(r) == proc[r].ret \in {80, 82, 86} /\ "local_x" \in proc[r].heap
HasScaledY(r) == proc[r].ret \in {82, 86} /\ "local_y" \in proc[r].heap

\* C17: after Parallel_vector_scalar(scalar, local_x, ...) every element of
\* the worker's block of x is scalar times what it was and the block has
\* its length, while the block of y (scaled by the next call, alike) and
\* the block z are as they were, at this worker and at every other; and
\* Parallel_vector_scalar with scalar 1, applied once or twice, returns the
\* block it is given.
C17_ScaleMultipliesBlock ==
    \A r \in Ranks :
        /\ HasScaledX(r) =>
              /\ proc[r].local_x =
                    ScaledBlock(GeneratedX, r, proc[r].local_n, proc[r].scalar)
              /\ proc[r].local_z = [j \in 1 .. proc[r].local_n |-> 0]
              /\ ~HasScaledY(r) =>
                    proc[r].local_y =
                        ScaledBlock(GeneratedY, r, proc[r].local_n, 1)
        /\ HasScaledY(r) =>
              proc[r].local_y =
                  ScaledBlock(GeneratedY, r, proc[r].local_n, proc[r].scalar)
        /\ \A arr \in {"local_x", "local_y"} :
              LET once == Parallel_vector_scalar(1, proc[r][arr],
                                                 proc[r].local_n)
              IN  /\ once = proc[r][arr]
                  /\ Parallel_vector_scalar(1, once, proc[r].local_n)
                         = proc[r][arr]

\* a worker other than rank 0 has scaled by 2 its block of x, which now
\* holds a 2, and not yet its block of y, which holds a 1
C17_Witness ==
    \E r \in Ranks :
        /\ r # 0
        /\ HasScaledX(r)
        /\ ~HasScaledY(r)
        /\ proc[r].scalar = 2
        /\ \E j \in 1 .. proc[r].local_n : proc[r].local_x[j] = 2
        /\ \E j \in 1 .. proc[r].local_n : proc[r].local_y[j] = 1

\* ------------------------------------------------------------- C18
\* the lines of stdout that hold the first window of a summary; the second
\* window is the line after it
FirstWindows == {i \in 1 .. Len(stdout) : stdout[i].text = "0 - 10"}

\* all the MPI_Gather calls of the run so far
Gathers == GathersBefore(Len(coll) + 1)

\* the vector gathered for the summary whose first window is line i: the
\* m-th summary prints the m-th gather
GatheredFor(i) ==
    LET m == Cardinality({j \in FirstWindows : j <= i})
        k == CHOOSE g \in Gathers : Cardinality({j \in Gathers : j <= g}) = m
    IN  GlobalVector(k)

\* the window `reads` holds the elements of `vector` at the positions
\* from .. from + 9, all of them positions of the vector
ReadsWindow(reads, vector, from) ==
    /\ Len(reads) = 10
    /\ \A j \in 1 .. 10 :
          /\ reads[j].pos = from + j - 1
          /\ reads[j].inb
          /\ 0 <= reads[j].pos /\ reads[j].pos < Len(vector)
          /\ reads[j].val = vector[reads[j].pos + 1]

\* C18: when the validated order n is at least 10, every summary rank 0
\* prints reads the gathered positions 0 .. 9 and then n-10 .. n-1, all of
\* them in [0, n), and no read ends the process; with n = 20 and four
\* workers the second window begins at 10 and every position 0 .. 19 is read
\* exactly once.
C18_SummaryWindows ==
    ("n" \in proc[0].set /\ proc[0].n >= 10) =>
        /\ proc[0].status # "SIGSEGV"
        /\ \A i \in FirstWindows :
              /\ Len(GatheredFor(i)) = proc[0].n
              /\ ReadsWindow(stdout[i].elems, GatheredFor(i), 0)
              /\ i + 1 <= Len(stdout)
              /\ stdout[i + 1].text = "%d - %d"
              /\ stdout[i + 1].nums = <<proc[0].n - 10, proc[0].n>>
              /\ ReadsWindow(stdout[i + 1].elems, GatheredFor(i),
                             proc[0].n - 10)
              /\ (proc[0].n = 20 /\ comm_sz = 4) =>
                    /\ stdout[i + 1].elems[1].pos = 10
                    /\ \A pos \in 0 .. 19 :
                          Cardinality(
                              {w \in {i, i + 1} \X (1 .. 10) :
                                  stdout[w[1]].elems[w[2]].pos = pos}) = 1
        /\ \A i \in 1 .. Len(stdout) :
              stdout[i].elems # <<>> => (i \in FirstWindows \/ i - 1 \in FirstWindows)

\* with n = 20 and four workers rank 0 has printed the summary of y by the
\* scalar 2: the windows are 0 .. 9 and 10 .. 19, they differ, and the
\* second holds a 2
C18_Witness ==
    /\ comm_sz = 4
    /\ proc[0].n = 20
    /\ proc[0].scalar = 2
    /\ Cardinality(FirstWindows) = 4
    /\ \E i \in FirstWindows :
          /\ \A j \in FirstWindows : j <= i
          /\ i + 1 <= Len(stdout)
          /\ stdout[i].elems[10].pos = 9
          /\ stdout[i + 1].elems[1].pos = 10
          /\ stdout[i + 1].elems[10].pos = 19
          /\ \E j \in 1 .. 10 : stdout[i + 1].elems[j].val = 2
          /\ \E j \in 1 .. 10 :
                stdout[i].elems[j].val # stdout[i + 1].elems[j].val

\* ------------------------------------------------------------- C19
\* the temporary vectors a process holds
Temporaries(r) == proc[r].heap \cap {"a", "b"}

\* the local blocks a process holds
LocalBlocks(r) == proc[r].heap \cap {"local_x", "local_y", "local_z"}

\* the process of rank r is alive or has ended by itself (the memory of a
\* process ended by a signal is gone with it)
NotKilled(r) == proc[r].pc # "killed"

\* C19: only rank 0 ever holds a temporary vector, and at most one: a only
\* inside Generate_vector, from its malloc to the free after MPI_Scatter,
\* and b only inside PrintTopDown_vector, from its malloc to the free after
\* MPI_Gather and the prints.  The local blocks of a worker come from the
\* one call of Allocate_vectors and stay until main frees them; a worker
\* that has returned from main holds no block and no temporary vector.
C19_BufferLifecycle ==
    \A r \in Ranks :
        NotKilled(r) =>
            /\ r # 0 => Temporaries(r) = {}
            /\ Cardinality(Temporaries(r)) <= 1
            /\ "a" \in proc[r].heap =>
                  /\ proc[r].pc = "Generate_vector_Check"
                  /\ proc[r].ret \in {71, 73}
                  /\ Len(proc[r].a) = proc[r].n
            /\ "b" \in proc[r].heap =>
                  /\ proc[r].pc \in {"PrintTopDown_vector_Check",
                                     "PrintTopDown_vector_Gather",
                                     "PrintTopDown_vector_printf"}
                  /\ proc[r].ret \in {72, 74, 80, 82}
            /\ LocalBlocks(r) # {} => proc[r].ret >= 69
            /\ (proc[r].ret >= 71 /\ ~Completed(r)) =>
                  /\ LocalBlocks(r) = {"local_x", "local_y", "local_z"}
                  /\ \A arr \in LocalBlocks(r) :
                        Len(proc[r][arr]) = proc[r].local_n
            /\ Completed(r) => proc[r].heap = {}
            /\ Aborted(r) => Temporaries(r) = {}

\* the three workers of a group have returned from main with nothing left
\* allocated, after rank 0 held a temporary vector for each of two scatters
\* and four gathers
C19_Witness ==
    /\ comm_sz = 3
    /\ \A r \in Ranks : Completed(r) /\ proc[r].heap = {}
    /\ proc[0].local_n >= 1
    /\ Cardinality(Scatters) = 2
    /\ Cardinality(Gathers) = 4

\* ------------------------------------------------------------- C20
\* the serial program has ended in Read_RandMax with its error message
vector_add2_RejectedBound ==
    /\ Aborted(0)
    /\ Len(stderr) = 1
    /\ stderr[1].message = "Max number should be positive"

\* C20: in the serial program, once the bound read at the second prompt is
\* 0 or less, Read_RandMax has ended the program with its error message; so
\* the program is never at or past Generate_vector with such a bound.
C20_SerialRejectsNonPositiveBound ==
    ("randmax" \in proc[0].set /\ proc[0].randmax <= 0) =>
        vector_add2_RejectedBound

\* ------------------------------------------------------------- C21
\* the collective history of a group of one process whose only rank has
\* entered a Check_for_error call with the vote local_ok
mpi_vector_add2_single_vote(local_ok) ==
    <<[r \in {0} |-> [op |-> "Allreduce", val |-> <<local_ok>>]]>>

\* mpi_vector_add2.c run with one process ends in the Check_for_error call
\* of Read_n on the order n, or in that of Read_RandMax on the bound randmax
mpi_vector_add2_rejects(n, randmax) ==
    \/ Check_for_error_exits(0, Check_for_error_ok(
           mpi_vector_add2_single_vote(Read_n_local_ok(n)), 1))
    \/ Check_for_error_exits(0, Check_for_error_ok(
           mpi_vector_add2_single_vote(Read_RandMax_local_ok(randmax)), 1))

\* the serial program has ended in Read_n or in Read_RandMax with the error
\* message of that function
vector_add2_RejectedInput ==
    /\ Aborted(0)
    /\ Len(stderr) = 1
    /\ stderr[1].message \in {"Order should be positive",
                              "Max number should be positive"}

\* the serial program is past the tests of its inputs
vector_add2_Decided ==
    proc[0].pc \notin {"main", "Read_n_scanf", "Read_RandMax_scanf"}

\* the serial program has returned from both calls of Generate_vector
vector_add2_Generated ==
    proc[0].pc \in {"PrintTopDown_vector_x", "PrintTopDown_vector_y",
                    "Vector_sum"}

\* C21: on the same order n and bound randmax the serial program ends with
\* an input error exactly when the distributed program run with one process
\* ends in the gate of Read_n or of Read_RandMax (when the order is refused
\* the bound is not read, so this is for every bound); and when the serial
\* program has generated x and y they have n elements each, as the vector
\* the distributed program generates for n has.
C21_SerialIsDistributedWithOneWorker ==
    /\ comm_sz = 1
    /\ vector_add2_Decided =>
          IF "randmax" \in proc[0].set
          THEN vector_add2_RejectedInput =
                   mpi_vector_add2_rejects(proc[0].n, proc[0].randmax)
          ELSE \A randmax \in RInputs :
                   vector_add2_RejectedInput =
                       mpi_vector_add2_rejects(proc[0].n, randmax)
    /\ vector_add2_Generated =>
          /\ Len(proc[0].x) = proc[0].n
          /\ Len(proc[0].y) = proc[0].n
          /\ Len(Generate_vector_fill(srand(clock), proc[0].n,
                                      proc[0].randmax)) = proc[0].n

====
